---- MODULE Spec2Model ----
(***************************************************************************)
(* A model of accountable-refcell (src/src/lib.rs): a RefCell that keeps,  *)
(* beside the standard library's borrow flag, a ledger of one BorrowRecord *)
(* per live guard.  One cell is modelled, with the guards derived from it, *)
(* the calls to user closures that are in progress, and the outcome of the *)
(* last operation.                                                         *)
(***************************************************************************)
EXTENDS Integers, Sequences, FiniteSets, Bags, TLC

----------------------------------------------------------------------------
(* Bounds of the model.                                                    *)

\* At most this many guards are alive at once, on both cells together.
MaxGuards == 2

\* At most this many closure calls (map, filter_map, replace_with) are nested.
MaxDepth == 1

\* The id counter is a usize; the model keeps the wrapping arithmetic of
\* wrapping_add and scales the number of usize values down to UsizeValues.
UsizeValues == 3

----------------------------------------------------------------------------
(* Values of the program.                                                  *)

\* i32::default(), the value take() leaves in the cell.
DefaultValue == 0

\* The value the tests construct their cells with.
TestValue == 5

Values == {DefaultValue, TestValue}

\* The backtrace Backtrace::new() captures is the call stack of the caller
\* at the moment the access is granted: an input, drawn from two call stacks.
Backtraces == {"stack_a", "stack_b"}

\* The values env::var("RUST_BACKTRACE") can yield: Err, Ok(""), Ok(non-empty).
EnvValues == {"unset", "empty", "set"}

\* The panic messages of the code.
MsgAlreadyMutablyBorrowed == "RefCell is already mutably borrowed."

MsgAlreadyBorrowed == "RefCell is already borrowed."

MsgMissingRecord == "missing borrow record"

MsgClosure == "closure panicked"

NoValue == 0 - 1

NoGuard == [kind |-> "none"]

----------------------------------------------------------------------------
(* The state.                                                              *)

VARIABLES
    cell,     \* the RefCell: [inner, borrows]; inner is the std RefCell,
              \* [value, borrow], borrow being the std borrow flag (0 unused,
              \* n > 0 n readers, -1 one writer); borrows is the BorrowData,
              \* [next_id, borrows]
    guards,   \* the bag of Ref and RefMut objects the program holds:
              \* [kind, id, backtrace]; id is RefBorrowData.id, backtrace is
              \* the one captured when this guard's access was granted (the
              \* code keeps it in the ledger only: the guard holds the id)
    stack,    \* the calls that are waiting for a user closure to return,
              \* innermost last: [fn, guard], guard being the guard that was
              \* moved into the call or that the call has taken
    result,   \* the outcome of the last operation
    other,    \* the second RefCell of the program, if it has one: <<>> or
              \* <<c>>, c a cell as above (the clone of the first, the other
              \* operand of ==)
    other_guards  \* the bag of Ref and RefMut objects derived from it

vars == <<cell, guards, stack, result, other, other_guards>>

\* The operations on the first cell leave the second one alone.
Alone == UNCHANGED <<other, other_guards>>

\* What an operation reports: how it ended ("ok", "err" for a returned Err,
\* "none" for a returned None, "panic", "call" while its closure is running),
\* the panic message, the value returned or observed, and the backtraces
\* written to stderr.
Outcome(op, how, msg, ret, printed) ==
    [op |-> op, outcome |-> how, msg |-> msg, ret |-> ret, printed |-> printed]

----------------------------------------------------------------------------
(* std::cell::RefCell, as the code uses it.                                *)

\* RefCell::try_borrow of std: granted unless a writer is registered.
std_try_borrow(inner) ==
    IF inner.borrow >= 0
        THEN [ok |-> TRUE, inner |-> [inner EXCEPT !.borrow = @ + 1]]
        ELSE [ok |-> FALSE, inner |-> inner]

\* RefCell::try_borrow_mut of std: granted only when the flag is unused.
std_try_borrow_mut(inner) ==
    IF inner.borrow = 0
        THEN [ok |-> TRUE, inner |-> [inner EXCEPT !.borrow = -1]]
        ELSE [ok |-> FALSE, inner |-> inner]

StdRef_clone(inner) == [inner EXCEPT !.borrow = @ + 1]

StdRef_drop(inner) == [inner EXCEPT !.borrow = @ - 1]

StdRefMut_drop(inner) == [inner EXCEPT !.borrow = @ + 1]

----------------------------------------------------------------------------
(* BorrowData.                                                             *)

\* A variant of next_id that stops at the maximum (saturating_add).
next_id_saturating(data) ==
    [id |-> data.next_id,
     data |-> [data EXCEPT !.next_id = IF @ + 1 < UsizeValues THEN @ + 1
                                                               ELSE @]]

\* BorrowData::next_id: the id handed out and the counter after it.
next_id(data) ==
    [id |-> data.next_id,
     data |-> [data EXCEPT !.next_id = (data.next_id + 1) % UsizeValues]]

\* BorrowData::record, with the backtrace it captures.
record(data, backtrace) ==
    LET n == next_id(data)
    IN  [id |-> n.id,
         data |-> [n.data EXCEPT
                      !.borrows = Append(@, [id |-> n.id,
                                             backtrace |-> backtrace])]]

\* self.borrows.iter().position(|record| record.id == id): the first index
\* (from 1) of a record with this id, 0 for None.
position(records, id) ==
    IF \E i \in 1..Len(records) : records[i].id = id
        THEN CHOOSE i \in 1..Len(records) :
                /\ records[i].id = id
                /\ \A j \in 1..(i - 1) : records[j].id # id
        ELSE 0

\* Vec::remove(idx), idx from 1.
Vec_remove(records, idx) ==
    [i \in 1..(Len(records) - 1) |->
        IF i < idx THEN records[i] ELSE records[i + 1]]

\* A variant that removes every record carrying the id (Vec::retain).
RECURSIVE retain_others(_, _)
retain_others(records, id) ==
    IF records = <<>>
        THEN <<>>
        ELSE IF Head(records).id = id
                THEN retain_others(Tail(records), id)
                ELSE <<Head(records)>> \o retain_others(Tail(records), id)

remove_all_matching_records(data, id) ==
    IF position(data.borrows, id) = 0
        THEN [ok |-> FALSE, data |-> data]
        ELSE [ok |-> TRUE,
              data |-> [data EXCEPT !.borrows = retain_others(@, id)]]

\* BorrowData::remove_matching_record; with no matching record the expect
\* panics and the ledger is as it was.
remove_matching_record(data, id) ==
    LET idx == position(data.borrows, id)
    IN  IF idx = 0
            THEN [ok |-> FALSE, data |-> data]
            ELSE [ok |-> TRUE,
                  data |-> [data EXCEPT !.borrows = Vec_remove(@, idx)]]

----------------------------------------------------------------------------
(* Guards.                                                                 *)

\* A new Ref or RefMut around a granted std borrow: the record is pushed and
\* the guard keeps its id.
new_guard(c, kind, backtrace) ==
    LET r == record(c.borrows, backtrace)
    IN  [cell |-> [c EXCEPT !.borrows = r.data],
         guard |-> [kind |-> kind, id |-> r.id, backtrace |-> backtrace]]

\* Dropping a Ref or RefMut: the std guard (field inner) goes first, then
\* RefBorrowData::drop removes the record matching the guard's id.
drop_guard(c, g) ==
    LET r == remove_matching_record(c.borrows, g.id)
    IN  [ok |-> r.ok,
         cell |-> [inner |-> IF g.kind = "Ref" THEN StdRef_drop(c.inner)
                                               ELSE StdRefMut_drop(c.inner),
                   borrows |-> r.data]]

One(g) == SetToBag({g})

\* The guards that the calls in frames hold.
RECURSIVE HeldBy(_)
HeldBy(frames) ==
    IF frames = <<>>
        THEN EmptyBag
        ELSE One(Head(frames).guard) (+) HeldBy(Tail(frames))

\* Every live guard derived from the cell.
Live == guards (+) HeldBy(stack)

\* Unwinding from a panic: every call in progress is left, innermost first,
\* and each drops what it holds: Ref::map its clone of the std guard and the
\* original guard, the others the guard they were given or had taken.
RECURSIVE unwind(_, _)
unwind(c, frames) ==
    IF frames = <<>>
        THEN c
        ELSE LET f == frames[Len(frames)]
                 c1 == IF f.fn = "Ref::map"
                           THEN [c EXCEPT !.inner = StdRef_drop(@)]
                           ELSE c
             IN  unwind(drop_guard(c1, f.guard).cell,
                        SubSeq(frames, 1, Len(frames) - 1))

\* Whether each drop made while unwinding finds a record with its id: if one
\* did not, the expect of remove_matching_record would panic during the panic.
RECURSIVE unwind_finds_records(_, _)
unwind_finds_records(c, frames) ==
    IF frames = <<>>
        THEN TRUE
        ELSE LET f == frames[Len(frames)]
                 d == drop_guard(c, f.guard)
             IN  /\ d.ok
                 /\ unwind_finds_records(d.cell,
                                         SubSeq(frames, 1, Len(frames) - 1))

\* A panic with message msg raised by operation op: the calls in progress are
\* unwound; the guards the program holds stay.
Panic(op, msg, printed) ==
    /\ cell' = unwind(cell, stack)
    /\ stack' = <<>>
    /\ result' = Outcome(op, "panic", msg, NoValue, printed)
    /\ UNCHANGED guards
    /\ Alone

----------------------------------------------------------------------------
(* Diagnostics.                                                            *)

\* A variant without the is_empty test: any value of the variable enables.
diagnostics_enabled_when_present(env) == env # "unset"

\* if let Ok(var) = env::var("RUST_BACKTRACE") { if !var.is_empty() { .. } }
diagnostics_enabled(env) == env = "set"

\* What borrow writes to stderr before it panics, for each value of
\* RUST_BACKTRACE: if enabled, the backtrace of the first record.
borrow_diagnostics(data) ==
    [env \in EnvValues |->
        IF diagnostics_enabled(env) THEN <<data.borrows[1].backtrace>>
                                    ELSE <<>>]

\* What borrow_mut writes to stderr before it panics, for each value of
\* RUST_BACKTRACE: if enabled, the backtrace of every record, in ledger order.
borrow_mut_diagnostics(data) ==
    [env \in EnvValues |->
        IF diagnostics_enabled(env)
            THEN [i \in 1..Len(data.borrows) |-> data.borrows[i].backtrace]
            ELSE <<>>]

----------------------------------------------------------------------------
(* RefCell::new.                                                           *)

RefCell_new(value) ==
    [inner |-> [value |-> value, borrow |-> 0],
     borrows |-> [next_id |-> 0, borrows |-> <<>>]]

Init ==
    /\ \E v \in Values : cell = RefCell_new(v)
    /\ guards = EmptyBag
    /\ stack = <<>>
    /\ result = Outcome("new", "ok", "", NoValue, <<>>)
    /\ other = <<>>
    /\ other_guards = EmptyBag

----------------------------------------------------------------------------
(* The operations, as functions of the cell.  A borrow operation yields    *)
(* [ok, cell, guard, msg, printed]: whether the access was granted, the    *)
(* cell after it, the guard returned, and for a fatal rejection the panic  *)
(* message and what is written to stderr first, for each value the         *)
(* environment variable may have.                                          *)

Silent == [env \in EnvValues |-> <<>>]

Granted(n) ==
    [ok |-> TRUE, cell |-> n.cell, guard |-> n.guard, msg |-> "",
     printed |-> Silent]

Rejected(c, msg, printed) ==
    [ok |-> FALSE, cell |-> c, guard |-> NoGuard, msg |-> msg,
     printed |-> printed]

\* A variant of borrow that asks std for the exclusive access.
borrow_asking_exclusive(c, site) ==
    LET r == std_try_borrow_mut(c.inner)
    IN  IF r.ok
            THEN Granted(new_guard([c EXCEPT !.inner = r.inner], "Ref", site))
            ELSE Rejected(c, MsgAlreadyMutablyBorrowed,
                          borrow_diagnostics(c.borrows))

\* A variant of try_borrow_mut that asks std for a shared access.
try_borrow_mut_asking_shared(c, site) ==
    LET r == std_try_borrow(c.inner)
    IN  IF r.ok
            THEN Granted(new_guard([c EXCEPT !.inner = r.inner], "RefMut", site))
            ELSE Rejected(c, "", Silent)

\* A variant of borrow_mut that panics with the message of borrow.
borrow_mut_with_message_of_borrow(c, site) ==
    LET r == std_try_borrow_mut(c.inner)
    IN  IF r.ok
            THEN Granted(new_guard([c EXCEPT !.inner = r.inner], "RefMut", site))
            ELSE Rejected(c, MsgAlreadyMutablyBorrowed,
                          borrow_mut_diagnostics(c.borrows))

\* RefCell::try_borrow.
try_borrow_at(c, site) ==
    LET r == std_try_borrow(c.inner)
    IN  IF r.ok
            THEN Granted(new_guard([c EXCEPT !.inner = r.inner], "Ref", site))
            ELSE Rejected(c, "", Silent)

\* RefCell::borrow.
borrow_at(c, site) ==
    LET r == std_try_borrow(c.inner)
    IN  IF r.ok
            THEN Granted(new_guard([c EXCEPT !.inner = r.inner], "Ref", site))
            ELSE Rejected(c, MsgAlreadyMutablyBorrowed,
                          borrow_diagnostics(c.borrows))

\* RefCell::try_borrow_mut.
try_borrow_mut_at(c, site) ==
    LET r == std_try_borrow_mut(c.inner)
    IN  IF r.ok
            THEN Granted(new_guard([c EXCEPT !.inner = r.inner], "RefMut", site))
            ELSE Rejected(c, "", Silent)

\* RefCell::borrow_mut.
borrow_mut_at(c, site) ==
    LET r == std_try_borrow_mut(c.inner)
    IN  IF r.ok
            THEN Granted(new_guard([c EXCEPT !.inner = r.inner], "RefMut", site))
            ELSE Rejected(c, MsgAlreadyBorrowed,
                          borrow_mut_diagnostics(c.borrows))

\* A variant of Ref::clone that records the borrow and shares the std guard
\* of the original instead of cloning it.
Ref_clone_sharing_std_guard(c, orig, site) == new_guard(c, "Ref", site)

\* Ref::clone: a record of its own is pushed, then the std guard is cloned:
\* [cell, guard].
Ref_clone_of(c, orig, site) ==
    new_guard([c EXCEPT !.inner = StdRef_clone(@)], "Ref", site)

\* A variant of Ref::map that keeps the std guard of orig alive.
Ref_map_leaking_std_guard(c, orig) == [cell |-> c, guards |-> One(orig)]

\* Ref::map once the closure has returned: the new Ref takes orig.data (the
\* id with it) and the mapped clone of the std guard; what is left of orig,
\* its std guard, is dropped: [cell, guards], guards being the guards that
\* exist in place of orig.
Ref_map_of(c, orig) ==
    [cell |-> [c EXCEPT !.inner = StdRef_drop(@)],
     guards |-> One(orig)]

\* RefMut::map once the closure has returned: inner and data move to the new
\* RefMut.
RefMut_map_of(c, orig) ==
    [cell |-> c, guards |-> One(orig)]

\* A variant of ref_filter_map that forgets orig when the closure declines.
ref_filter_map_forgetting(c, orig, some) ==
    IF some
        THEN [cell |-> [c EXCEPT !.inner = StdRef_drop(StdRef_clone(@))],
              guards |-> One(orig)]
        ELSE [cell |-> c, guards |-> EmptyBag]

\* ref_filter_map once the closure has returned: Some(view) goes through
\* Ref::map with a closure that cannot fail, None lets orig drop.
ref_filter_map_of(c, orig, some) ==
    IF some
        THEN Ref_map_of([c EXCEPT !.inner = StdRef_clone(@)], orig)
        ELSE [cell |-> drop_guard(c, orig).cell, guards |-> EmptyBag]

\* ref_mut_filter_map once the closure has returned.
ref_mut_filter_map_of(c, orig, some) ==
    IF some
        THEN RefMut_map_of(c, orig)
        ELSE [cell |-> drop_guard(c, orig).cell, guards |-> EmptyBag]

\* A variant that swaps and then forgets the guard (mem::forget).
swap_and_forget(c, g, t) == [c EXCEPT !.inner.value = t]

\* mem::replace(&mut *guard, t) followed by the drop of the guard.
swap_and_release(c, g, t) ==
    drop_guard([c EXCEPT !.inner.value = t], g).cell

\* A variant of replace that swaps through as_ptr, without a borrow.
replace_unchecked(c, t, site) ==
    [ok |-> TRUE, cell |-> [c EXCEPT !.inner.value = t],
     ret |-> c.inner.value, msg |-> "", printed |-> Silent]

\* A variant of replace that returns the new value instead of the old one.
replace_returning_new(c, t, site) ==
    LET b == borrow_mut_at(c, site)
    IN  IF b.ok
            THEN [ok |-> TRUE, cell |-> swap_and_release(b.cell, b.guard, t),
                  ret |-> t, msg |-> "", printed |-> Silent]
            ELSE [ok |-> FALSE, cell |-> c, ret |-> NoValue, msg |-> b.msg,
                  printed |-> b.printed]

\* RefCell::replace: [ok, cell, ret, msg, printed].
replace_in(c, t, site) ==
    LET b == borrow_mut_at(c, site)
    IN  IF b.ok
            THEN [ok |-> TRUE, cell |-> swap_and_release(b.cell, b.guard, t),
                  ret |-> c.inner.value, msg |-> "", printed |-> Silent]
            ELSE [ok |-> FALSE, cell |-> c, ret |-> NoValue, msg |-> b.msg,
                  printed |-> b.printed]

\* A variant of take that swaps a copy of the value in.
take_cloning(c, site) == replace_in(c, c.inner.value, site)

\* RefCell::take.
take_in(c, site) == replace_in(c, DefaultValue, site)

\* A bool as the integer it casts to (true as i32 is 1).
Truth(b) == IF b THEN 1 ELSE 0

\* A variant of Clone for RefCell that copies both fields, as a derived Clone
\* of the struct would copy the BorrowData.
RefCell_clone_derived(c, site) ==
    [ok |-> c.inner.borrow >= 0, cell |-> c,
     new |-> IF c.inner.borrow >= 0
                THEN <<[inner |-> [c.inner EXCEPT !.borrow = 0],
                        borrows |-> c.borrows]>>
                ELSE <<>>,
     ret |-> IF c.inner.borrow >= 0 THEN c.inner.value ELSE NoValue,
     msg |-> borrow_at(c, site).msg, printed |-> borrow_at(c, site).printed]

\* Clone for RefCell: RefCell::new(self.borrow().clone()).  The transient Ref
\* is dropped when the expression ends: [ok, cell, new, ret, msg, printed],
\* new being the cell returned and ret the value it holds.
RefCell_clone_of(c, site) ==
    LET b == borrow_at(c, site)
    IN  IF b.ok
            THEN [ok |-> TRUE, cell |-> drop_guard(b.cell, b.guard).cell,
                  new |-> <<RefCell_new(b.cell.inner.value)>>,
                  ret |-> b.cell.inner.value, msg |-> "", printed |-> Silent]
            ELSE [ok |-> FALSE, cell |-> c, new |-> <<>>, ret |-> NoValue,
                  msg |-> b.msg, printed |-> b.printed]

\* A variant of eq that takes exclusive accesses.
eq_exclusive(a, b, site) ==
    LET x == borrow_mut_at(a, site)
        y == borrow_mut_at(b, site)
    IN  IF ~x.ok
            THEN [ok |-> FALSE, self |-> a, other |-> b, ret |-> NoValue,
                  msg |-> x.msg, printed |-> x.printed]
            ELSE IF ~y.ok
                    THEN [ok |-> FALSE,
                          self |-> drop_guard(x.cell, x.guard).cell,
                          other |-> b, ret |-> NoValue,
                          msg |-> y.msg, printed |-> y.printed]
                    ELSE [ok |-> TRUE,
                          self |-> drop_guard(x.cell, x.guard).cell,
                          other |-> drop_guard(y.cell, y.guard).cell,
                          ret |-> Truth(x.cell.inner.value
                                            = y.cell.inner.value),
                          msg |-> "", printed |-> Silent]

\* PartialEq::eq, *self.borrow() == *other.borrow(), on two cells a and b:
\* a is borrowed first, then b; a failure on b unwinds and drops the Ref on
\* a; at the end both temporaries are dropped.
eq_of(a, b, site) ==
    LET x == borrow_at(a, site)
        y == borrow_at(b, site)
    IN  IF ~x.ok
            THEN [ok |-> FALSE, self |-> a, other |-> b, ret |-> NoValue,
                  msg |-> x.msg, printed |-> x.printed]
            ELSE IF ~y.ok
                    THEN [ok |-> FALSE,
                          self |-> drop_guard(x.cell, x.guard).cell,
                          other |-> b, ret |-> NoValue,
                          msg |-> y.msg, printed |-> y.printed]
                    ELSE [ok |-> TRUE,
                          self |-> drop_guard(x.cell, x.guard).cell,
                          other |-> drop_guard(y.cell, y.guard).cell,
                          ret |-> Truth(x.cell.inner.value
                                            = y.cell.inner.value),
                          msg |-> "", printed |-> Silent]

\* PartialEq::eq of a cell with itself: both borrows are taken on c, the
\* second temporary is dropped first.
eq_same(c, site) ==
    LET x == borrow_at(c, site)
    IN  IF ~x.ok
            THEN [ok |-> FALSE, cell |-> c, ret |-> NoValue,
                  msg |-> x.msg, printed |-> x.printed]
            ELSE LET y == borrow_at(x.cell, site)
                     d == drop_guard(y.cell, y.guard).cell
                 IN  [ok |-> TRUE, cell |-> drop_guard(d, x.guard).cell,
                      ret |-> Truth(y.cell.inner.value = y.cell.inner.value),
                      msg |-> "", printed |-> Silent]

----------------------------------------------------------------------------
(* The operations as steps of the program.                                 *)

\* A granted access: the guard is returned to the caller.
Grant(op, b) ==
    /\ BagCardinality(Live) + BagCardinality(other_guards) < MaxGuards
    /\ cell' = b.cell
    /\ guards' = guards (+) One(b.guard)
    /\ result' = Outcome(op, "ok", "", NoValue, <<>>)
    /\ UNCHANGED stack
    /\ Alone

\* A variant of the Err path that panics as borrow_mut does.
Err_as_panic(op) == Panic(op, MsgAlreadyBorrowed, <<>>)

\* An Err returned to the caller.
Err(op) ==
    /\ result' = Outcome(op, "err", "", NoValue, <<>>)
    /\ UNCHANGED <<cell, guards, stack>>
    /\ Alone

\* A fatal rejection: the environment variable is read, the diagnostics are
\* written and the operation panics.
Fatal(op, b) ==
    \E printed \in {b.printed[env] : env \in EnvValues} :
        Panic(op, b.msg, printed)

\* Whether a borrow of the cell is granted does not depend on the caller's
\* call stack: the steps below branch on it first.
AnySite == "stack_a"

borrow ==
    IF borrow_at(cell, AnySite).ok
        THEN \E site \in Backtraces : Grant("borrow", borrow_at(cell, site))
        ELSE Fatal("borrow", borrow_at(cell, AnySite))

try_borrow ==
    IF try_borrow_at(cell, AnySite).ok
        THEN \E site \in Backtraces :
                Grant("try_borrow", try_borrow_at(cell, site))
        ELSE Err("try_borrow")

borrow_mut ==
    IF borrow_mut_at(cell, AnySite).ok
        THEN \E site \in Backtraces :
                Grant("borrow_mut", borrow_mut_at(cell, site))
        ELSE Fatal("borrow_mut", borrow_mut_at(cell, AnySite))

try_borrow_mut ==
    IF try_borrow_mut_at(cell, AnySite).ok
        THEN \E site \in Backtraces :
                Grant("try_borrow_mut", try_borrow_mut_at(cell, site))
        ELSE Err("try_borrow_mut")

Ref_clone ==
    \E orig \in BagToSet(guards), site \in Backtraces :
        /\ orig.kind = "Ref"
        /\ BagCardinality(Live) < MaxGuards
        /\ LET n == Ref_clone_of(cell, orig, site)
           IN  /\ cell' = n.cell
               /\ guards' = guards (+) One(n.guard)
               /\ result' = Outcome("Ref::clone", "ok", "", NoValue, <<>>)
        /\ UNCHANGED stack
        /\ Alone

\* Drop of a guard the program holds.
drop ==
    \E g \in BagToSet(guards) :
        LET d == drop_guard(cell, g)
        IN  /\ guards' = guards (-) One(g)
            /\ Alone
            /\ IF d.ok
                THEN /\ cell' = d.cell
                     /\ result' = Outcome("drop", "ok", "", NoValue, <<>>)
                     /\ UNCHANGED stack
                ELSE /\ cell' = unwind(d.cell, stack)
                     /\ stack' = <<>>
                     /\ result' = Outcome("drop", "panic", MsgMissingRecord,
                                          NoValue, <<>>)

\* Deref::deref of a guard: the value is observed.
deref ==
    \E g \in BagToSet(guards) :
        /\ result' = Outcome("deref", "ok", "", cell.inner.value, <<>>)
        /\ UNCHANGED <<cell, guards, stack>>
        /\ Alone

\* DerefMut::deref_mut of a RefMut, and a write through it.
deref_mut ==
    \E g \in BagToSet(guards), v \in Values :
        /\ g.kind = "RefMut"
        /\ cell' = [cell EXCEPT !.inner.value = v]
        /\ result' = Outcome("deref_mut", "ok", "", NoValue, <<>>)
        /\ UNCHANGED <<guards, stack>>
        /\ Alone

\* An operation that takes its exclusive access and releases it by itself.
Swap(op, r) ==
    /\ r.ok
    /\ cell' = r.cell
    /\ result' = Outcome(op, "ok", "", r.ret, <<>>)
    /\ UNCHANGED <<guards, stack>>
    /\ Alone

replace ==
    IF replace_in(cell, DefaultValue, AnySite).ok
        THEN \E t \in Values, site \in Backtraces :
                Swap("replace", replace_in(cell, t, site))
        ELSE Fatal("replace", replace_in(cell, DefaultValue, AnySite))

take ==
    IF take_in(cell, AnySite).ok
        THEN \E site \in Backtraces : Swap("take", take_in(cell, site))
        ELSE Fatal("take", take_in(cell, AnySite))

----------------------------------------------------------------------------
(* Operations that call a closure of the user.  The call is one step, the  *)
(* return of the closure another; between them the closure may use the     *)
(* cell, and it may panic.                                                 *)

Top == stack[Len(stack)]

Pop == SubSeq(stack, 1, Len(stack) - 1)

\* Entering a call that holds guard g until the closure returns.
Call(fn, g) ==
    /\ Len(stack) < MaxDepth
    /\ stack' = Append(stack, [fn |-> fn, guard |-> g])
    /\ result' = Outcome(fn, "call", "", NoValue, <<>>)
    /\ Alone

\* A guard of the program is moved into a call.
Move(fn, kind) ==
    \E orig \in BagToSet(guards) :
        /\ orig.kind = kind
        /\ Call(fn, orig)
        /\ guards' = guards (-) One(orig)

\* The call on top of the stack returns, leaving the cell as r.cell and the
\* guards r.guards to the caller.
Return(fn, how, r) ==
    /\ cell' = r.cell
    /\ guards' = guards (+) r.guards
    /\ stack' = Pop
    /\ result' = Outcome(fn, how, "", NoValue, <<>>)
    /\ Alone

\* Ref::map: StdRef::clone(&orig.inner) is made before f runs.
Ref_map ==
    /\ Move("Ref::map", "Ref")
    /\ cell' = [cell EXCEPT !.inner = StdRef_clone(@)]

Ref_map_return ==
    /\ stack # <<>>
    /\ Top.fn = "Ref::map"
    /\ Return("Ref::map", "ok", Ref_map_of(cell, Top.guard))

RefMut_map ==
    /\ Move("RefMut::map", "RefMut")
    /\ UNCHANGED cell

RefMut_map_return ==
    /\ stack # <<>>
    /\ Top.fn = "RefMut::map"
    /\ Return("RefMut::map", "ok", RefMut_map_of(cell, Top.guard))

ref_filter_map ==
    /\ Move("ref_filter_map", "Ref")
    /\ UNCHANGED cell

\* The closure returns Some(view) or None.
ref_filter_map_return ==
    /\ stack # <<>>
    /\ Top.fn = "ref_filter_map"
    /\ \E some \in BOOLEAN :
        Return("ref_filter_map", IF some THEN "ok" ELSE "none",
               ref_filter_map_of(cell, Top.guard, some))

ref_mut_filter_map ==
    /\ Move("ref_mut_filter_map", "RefMut")
    /\ UNCHANGED cell

ref_mut_filter_map_return ==
    /\ stack # <<>>
    /\ Top.fn = "ref_mut_filter_map"
    /\ \E some \in BOOLEAN :
        Return("ref_mut_filter_map", IF some THEN "ok" ELSE "none",
               ref_mut_filter_map_of(cell, Top.guard, some))

\* RefCell::replace_with up to the call of f: the exclusive access is taken
\* and lives until the function returns.
replace_with ==
    IF borrow_mut_at(cell, AnySite).ok
        THEN \E site \in Backtraces :
                LET b == borrow_mut_at(cell, site)
                IN  /\ BagCardinality(Live) < MaxGuards
                    /\ cell' = b.cell
                    /\ Call("replace_with", b.guard)
                    /\ UNCHANGED guards
        ELSE Fatal("replace_with", borrow_mut_at(cell, AnySite))

\* f returns the replacement: it is swapped in, the value that was there is
\* returned and the exclusive access is released.
replace_with_return ==
    /\ stack # <<>>
    /\ Top.fn = "replace_with"
    /\ \E replacement \in Values :
        /\ cell' = swap_and_release(cell, Top.guard, replacement)
        /\ stack' = Pop
        /\ result' = Outcome("replace_with", "ok", "", cell.inner.value, <<>>)
        /\ UNCHANGED guards
    /\ Alone

\* The running closure was given a &mut T and writes through it.
closure_write ==
    /\ stack # <<>>
    /\ Top.fn \in {"replace_with", "RefMut::map", "ref_mut_filter_map"}
    /\ \E v \in Values :
        /\ cell' = [cell EXCEPT !.inner.value = v]
        /\ result' = Outcome("closure_write", "ok", "", NoValue, <<>>)
    /\ UNCHANGED <<guards, stack>>
    /\ Alone

\* The running closure panics.
closure_panic ==
    /\ stack # <<>>
    /\ Panic("closure", MsgClosure, <<>>)

----------------------------------------------------------------------------

Next ==
    \/ borrow
    \/ try_borrow
    \/ borrow_mut
    \/ try_borrow_mut
    \/ Ref_clone
    \/ drop
    \/ deref
    \/ deref_mut
    \/ replace
    \/ take
    \/ Ref_map
    \/ Ref_map_return
    \/ RefMut_map
    \/ RefMut_map_return
    \/ ref_filter_map
    \/ ref_filter_map_return
    \/ ref_mut_filter_map
    \/ ref_mut_filter_map_return
    \/ replace_with
    \/ replace_with_return
    \/ closure_write
    \/ closure_panic

Spec == Init /\ [][Next]_vars

----------------------------------------------------------------------------
(* Two cells: the first one and its clone, compared with ==.  The guards   *)
(* of the second cell are kept apart from those of the first.              *)

\* c.clone(): the program keeps the clone as its second cell.
RefCell_clone ==
    /\ other = <<>>
    /\ IF RefCell_clone_of(cell, AnySite).ok
        THEN \E site \in Backtraces :
                LET r == RefCell_clone_of(cell, site)
                IN  /\ cell' = r.cell
                    /\ other' = r.new
                    /\ result' = Outcome("RefCell::clone", "ok", "", r.ret,
                                         <<>>)
                    /\ UNCHANGED <<guards, stack, other_guards>>
        ELSE Fatal("RefCell::clone", RefCell_clone_of(cell, AnySite))

\* The second cell goes out of scope; no guard borrows from it any more.
drop_other ==
    /\ other # <<>>
    /\ other_guards = EmptyBag
    /\ other' = <<>>
    /\ result' = Outcome("drop_other", "ok", "", NoValue, <<>>)
    /\ UNCHANGED <<cell, guards, stack, other_guards>>

\* A granted access to the second cell.
OtherGrant(op, b) ==
    /\ BagCardinality(Live) + BagCardinality(other_guards) < MaxGuards
    /\ other' = <<b.cell>>
    /\ other_guards' = other_guards (+) One(b.guard)
    /\ result' = Outcome(op, "ok", "", NoValue, <<>>)
    /\ UNCHANGED <<cell, guards, stack>>

\* other.borrow().
other_borrow ==
    /\ other # <<>>
    /\ IF borrow_at(other[1], AnySite).ok
        THEN OtherGrant("other.borrow", borrow_at(other[1], AnySite))
        ELSE Fatal("other.borrow", borrow_at(other[1], AnySite))

\* other.borrow_mut().
other_borrow_mut ==
    /\ other # <<>>
    /\ IF borrow_mut_at(other[1], AnySite).ok
        THEN OtherGrant("other.borrow_mut", borrow_mut_at(other[1], AnySite))
        ELSE Fatal("other.borrow_mut", borrow_mut_at(other[1], AnySite))

\* Drop of a guard of the second cell.
other_drop ==
    \E g \in BagToSet(other_guards) :
        LET d == drop_guard(other[1], g)
        IN  /\ other_guards' = other_guards (-) One(g)
            /\ other' = <<d.cell>>
            /\ result' = Outcome("other.drop",
                                 IF d.ok THEN "ok" ELSE "panic",
                                 IF d.ok THEN "" ELSE MsgMissingRecord,
                                 NoValue, <<>>)
            /\ UNCHANGED <<cell, guards, stack>>

\* The outcome r of a comparison, self being the first cell if first holds
\* and the second cell otherwise.
Compared(r, first) ==
    /\ cell' = IF first THEN r.self ELSE r.other
    /\ other' = <<IF first THEN r.other ELSE r.self>>
    /\ UNCHANGED <<guards, stack, other_guards>>
    /\ \/ /\ r.ok
          /\ result' = Outcome("eq", "ok", "", r.ret, <<>>)
       \/ /\ ~r.ok
          /\ \E printed \in {r.printed[env] : env \in EnvValues} :
                result' = Outcome("eq", "panic", r.msg, NoValue, printed)

\* c == other.
eq ==
    /\ other # <<>>
    /\ \E site \in Backtraces : Compared(eq_of(cell, other[1], site), TRUE)

\* other == c.
eq_reversed ==
    /\ other # <<>>
    /\ \E site \in Backtraces : Compared(eq_of(other[1], cell, site), FALSE)

\* c == c.
eq_self ==
    IF eq_same(cell, AnySite).ok
        THEN \E site \in Backtraces : Swap("eq", eq_same(cell, site))
        ELSE Fatal("eq", eq_same(cell, AnySite))

NextPair ==
    \/ borrow
    \/ borrow_mut
    \/ drop
    \/ deref_mut
    \/ RefCell_clone
    \/ drop_other
    \/ other_borrow
    \/ other_borrow_mut
    \/ other_drop
    \/ eq
    \/ eq_reversed
    \/ eq_self

SpecPair == Init /\ [][NextPair]_vars

----------------------------------------------------------------------------
(* Vocabulary of the properties.                                           *)

Records == cell.borrows.borrows

\* How many guards of a kind a bag holds.
CountKind(bag, kind) ==
    LET S == {g \in BagToSet(bag) : g.kind = kind}
    IN  BagCardinality([g \in S |-> bag[g]])

\* How many guards of a bag carry an id.
CountId(bag, id) ==
    LET S == {g \in BagToSet(bag) : g.id = id}
    IN  BagCardinality([g \in S |-> bag[g]])

\* How many records of a ledger carry an id.
RecordsWithId(records, id) ==
    Cardinality({i \in 1..Len(records) : records[i].id = id})

\* The ledger without its i-th record.
Without(records, i) ==
    [j \in 1..(Len(records) - 1) |->
        IF j < i THEN records[j] ELSE records[j + 1]]

\* The step is a step of operation op.
Did(op) == result'.op = op

\* An operation is rejected without a trace in the ledger: the counter stands
\* and no record is added (unwinding may release the guards that calls in
\* progress hold); with no call in progress the whole cell is as it was.
NothingGranted ==
    /\ cell'.borrows.next_id = cell.borrows.next_id
    /\ Len(Records') <= Len(Records)
    /\ cell'.inner.value = cell.inner.value
    /\ guards' = guards
    /\ stack = <<>> => cell' = cell

----------------------------------------------------------------------------
(* C1: after any sequence of operations on the cell the live guards are    *)
(* none, or shared guards only, or exactly one exclusive guard: a shared   *)
(* and an exclusive guard never coexist, nor do two exclusive guards.      *)

C1_SharedXorExclusive ==
    \/ CountKind(Live, "RefMut") = 0
    \/ CountKind(Live, "RefMut") = 1 /\ CountKind(Live, "Ref") = 0

\* An exclusive guard is alive and borrow has just panicked because of it.
C1_Witness ==
    /\ CountKind(Live, "RefMut") = 1
    /\ CountKind(Live, "Ref") = 0
    /\ result.op = "borrow"
    /\ result.outcome = "panic"

----------------------------------------------------------------------------
(* C2: in every reachable state the number of records in the ledger equals *)
(* the number of live guards (Ref and RefMut, clones and mapped guards     *)
(* included) derived from the cell.                                         *)

C2_RecordsEqualGuards == Len(Records) = BagCardinality(Live)

\* A guard was dropped while another one stays alive.
C2_Witness ==
    /\ result.op = "drop"
    /\ result.outcome = "ok"
    /\ BagCardinality(Live) = 1
    /\ Len(Records) = 1

----------------------------------------------------------------------------
(* C3: borrow_mut and try_borrow_mut are rejected in every state in which  *)
(* at least one guard is alive: borrow_mut panics with "RefCell is already *)
(* borrowed", try_borrow_mut returns an Err; no ledger record is added.    *)

C3_ExclusiveRejectedWhileBorrowed ==
    [][BagCardinality(Live) >= 1 =>
        /\ Did("borrow_mut") =>
            /\ result'.outcome = "panic"
            /\ result'.msg = MsgAlreadyBorrowed
            /\ NothingGranted
        /\ Did("try_borrow_mut") =>
            /\ result'.outcome = "err"
            /\ NothingGranted]_vars

\* borrow_mut has panicked while two shared guards are alive.
C3_Witness ==
    /\ result.op = "borrow_mut"
    /\ result.outcome = "panic"
    /\ result.msg = MsgAlreadyBorrowed
    /\ CountKind(guards, "Ref") >= 2

----------------------------------------------------------------------------
(* C4: borrow and try_borrow are rejected exactly when an exclusive guard  *)
(* is alive (borrow panics with "RefCell is already mutably borrowed",     *)
(* try_borrow returns an Err); in every other state, with any number n of  *)
(* live shared guards, they succeed and the number of live shared guards   *)
(* and of ledger records becomes n + 1.                                    *)

SharedGranted ==
    /\ result'.outcome = "ok"
    /\ CountKind(Live', "Ref") = CountKind(Live, "Ref") + 1
    /\ CountKind(Live', "RefMut") = 0
    /\ Len(Records') = CountKind(Live, "Ref") + 1

C4_SharedRejectedIffExclusive ==
    [][/\ Did("borrow") =>
            IF CountKind(Live, "RefMut") >= 1
                THEN /\ result'.outcome = "panic"
                     /\ result'.msg = MsgAlreadyMutablyBorrowed
                     /\ NothingGranted
                ELSE SharedGranted
       /\ Did("try_borrow") =>
            IF CountKind(Live, "RefMut") >= 1
                THEN /\ result'.outcome = "err"
                     /\ NothingGranted
                ELSE SharedGranted]_vars

\* borrow has succeeded beside a shared guard that was already alive.
C4_Witness ==
    /\ result.op = "borrow"
    /\ result.outcome = "ok"
    /\ CountKind(Live, "Ref") >= 2

----------------------------------------------------------------------------
(* C5: whenever every guard derived from the cell has been dropped, after  *)
(* whatever grants, rejections, clones, maps and drops, the cell is Idle   *)
(* again with an empty ledger, and the next borrow_mut or try_borrow_mut   *)
(* succeeds.                                                               *)

Idle == cell.inner.borrow = 0 /\ Records = <<>>

C5_IdleAfterAllDropped ==
    /\ [](BagCardinality(Live) = 0 =>
            /\ Idle
            /\ borrow_mut_at(cell, AnySite).ok
            /\ try_borrow_mut_at(cell, AnySite).ok)
    /\ [][(BagCardinality(Live) = 0
            /\ (Did("borrow_mut") \/ Did("try_borrow_mut"))) =>
            /\ result'.outcome = "ok"
            /\ CountKind(Live', "RefMut") = 1
            /\ Len(Records') = 1]_vars

\* borrow_mut is granted with the counter back at 0: as many accesses as a
\* usize has values were granted, and every earlier guard is gone.
C5_Witness ==
    /\ result.op = "borrow_mut"
    /\ result.outcome = "ok"
    /\ cell.borrows.next_id = 0

----------------------------------------------------------------------------
(* C6: a rejected try_borrow or try_borrow_mut returns an Err to its       *)
(* caller without panicking and leaves the cell unchanged: the stored      *)
(* value, the ledger records and every guard alive before the call are the *)
(* same afterwards.                                                        *)

C6_RejectedTryLeavesCellUnchanged ==
    [][/\ Did("try_borrow") =>
            /\ result'.outcome \in {"ok", "err"}
            /\ ~try_borrow_at(cell, AnySite).ok => result'.outcome = "err"
            /\ result'.outcome = "err" =>
                    cell' = cell /\ guards' = guards /\ stack' = stack
       /\ Did("try_borrow_mut") =>
            /\ result'.outcome \in {"ok", "err"}
            /\ ~try_borrow_mut_at(cell, AnySite).ok => result'.outcome = "err"
            /\ result'.outcome = "err" =>
                    cell' = cell /\ guards' = guards /\ stack' = stack]_vars

\* try_borrow has returned an Err and the exclusive guard that caused it is
\* still held by the program.
C6_Witness ==
    /\ result.op = "try_borrow"
    /\ result.outcome = "err"
    /\ CountKind(guards, "RefMut") = 1
    /\ Len(Records) = 1

----------------------------------------------------------------------------
(* C7: Ref::clone of a live shared guard adds exactly one new ledger       *)
(* record, carrying the id that this call takes from the counter, and the  *)
(* clone is released independently of the original: as long as one of the  *)
(* two is alive the cell is Shared and borrow_mut keeps failing.           *)

----------------------------------------------------------------------------
(* C8: Ref::map, RefMut::map and a filter_map whose closure yields a view  *)
(* leave the number of ledger records unchanged and hand the original      *)
(* guard's id to the single resulting guard; a ref_filter_map or           *)
(* ref_mut_filter_map whose closure declines releases a record with the    *)
(* original's id, so that the count decreases by exactly one; and guards   *)
(* never share a record: for every id the ledger holds as many records as  *)
(* there are live guards with this id.                                     *)

MapFns == {"Ref::map", "RefMut::map", "ref_filter_map", "ref_mut_filter_map"}

----------------------------------------------------------------------------
(* C9: dropping a guard removes exactly one ledger record, and that record *)
(* is the one created for this guard (the record and backtrace captured    *)
(* when this guard's access was granted); the records of all other live    *)
(* guards stay in the ledger.                                              *)

\* The record that was pushed when the access of guard g was granted.
RecordOf(g) == [id |-> g.id, backtrace |-> g.backtrace]

C9_DropRemovesOwnRecord ==
    [][(Did("drop") /\ result'.outcome = "ok") =>
        \E g \in BagToSet(guards) :
            /\ guards' = guards (-) One(g)
            /\ Len(Records') = Len(Records) - 1
            /\ \E i \in 1..Len(Records) :
                /\ Records[i] = RecordOf(g)
                /\ Records' = Without(Records, i)]_vars

\* A drop has just succeeded and the ledger holds a record that was created
\* for none of the guards that are alive, while a live guard has lost its own.
C9_Witness ==
    /\ result.op = "drop"
    /\ result.outcome = "ok"
    /\ \E i \in 1..Len(Records) :
            \A g \in BagToSet(Live) : RecordOf(g) # Records[i]
    /\ \E g \in BagToSet(Live) :
            \A i \in 1..Len(Records) : RecordOf(g) # Records[i]

\* What holds of the code: the drop removes exactly one record, the first
\* one that carries the guard's id, and leaves every other record in place.
C9_DropRemovesFirstRecordWithItsId ==
    [][(Did("drop") /\ result'.outcome = "ok") =>
        \E g \in BagToSet(guards) :
            /\ guards' = guards (-) One(g)
            /\ \E i \in 1..Len(Records) :
                /\ Records[i].id = g.id
                /\ \A j \in 1..(i - 1) : Records[j].id # g.id
                /\ Records' = Without(Records, i)]_vars

----------------------------------------------------------------------------
(* C10: replace, replace_with and take called while any guard of the cell  *)
(* is alive panic exactly as borrow_mut does, with "RefCell is already     *)
(* borrowed", without changing the stored value or adding a ledger record, *)
(* and replace_with without calling its closure.                           *)

\* The step is the return of the closure of a replace_with in progress.
ClosureOfReplaceWithReturns ==
    /\ stack # <<>>
    /\ Top.fn = "replace_with"
    /\ result'.outcome = "ok"
    /\ stack' = Pop

FailsAsBorrowMut ==
    /\ result'.outcome = "panic"
    /\ result'.msg = MsgAlreadyBorrowed
    /\ result'.msg = borrow_mut_at(cell, AnySite).msg
    /\ \E env \in EnvValues :
            result'.printed = borrow_mut_at(cell, AnySite).printed[env]
    /\ NothingGranted
    /\ stack' = <<>>

C10_SwapsRejectedWhileBorrowed ==
    [][BagCardinality(Live) >= 1 =>
        /\ Did("replace") => FailsAsBorrowMut
        /\ Did("take") => FailsAsBorrowMut
        /\ Did("replace_with") =>
                FailsAsBorrowMut \/ ClosureOfReplaceWithReturns]_vars

\* replace_with has panicked while a shared guard is alive.
C10_Witness ==
    /\ result.op = "replace_with"
    /\ result.outcome = "panic"
    /\ result.msg = MsgAlreadyBorrowed
    /\ CountKind(guards, "Ref") >= 1

----------------------------------------------------------------------------
(* C11: on an Idle cell replace(v) returns the value the cell held, makes  *)
(* v the value the next shared access observes and leaves the cell Idle    *)
(* with an empty ledger; take() has the result and effect of               *)
(* replace(default value).                                                 *)

C11_ReplaceOnIdle ==
    /\ [](Idle => \A t \in Values, site \in Backtraces :
            LET r == replace_in(cell, t, site)
                s == borrow_at(r.cell, site)
            IN  /\ r.ok
                /\ r.ret = cell.inner.value
                /\ r.cell.inner = [value |-> t, borrow |-> 0]
                /\ r.cell.borrows.borrows = <<>>
                /\ s.ok
                /\ s.cell.inner.value = t
                /\ take_in(cell, site) = replace_in(cell, DefaultValue, site))
    /\ [][(Idle /\ Did("replace")) =>
            /\ result'.outcome = "ok"
            /\ result'.ret = cell.inner.value
            /\ \E t \in Values, site \in Backtraces :
                    cell' = replace_in(cell, t, site).cell
            /\ Idle'
            /\ guards' = guards]_vars
    /\ [][(Idle /\ Did("take")) =>
            /\ result'.outcome = "ok"
            /\ result'.ret = cell.inner.value
            /\ cell'.inner.value = DefaultValue
            /\ \E site \in Backtraces :
                    cell' = replace_in(cell, DefaultValue, site).cell
            /\ Idle'
            /\ guards' = guards]_vars
    /\ [][Did("deref") => result'.ret = cell.inner.value]_vars

\* take has returned the value the cell was built with and left the default.
C11_Witness ==
    /\ result.op = "take"
    /\ result.outcome = "ok"
    /\ result.ret = TestValue
    /\ cell.inner.value = DefaultValue
    /\ Idle

----------------------------------------------------------------------------
(* C12: for every value x and every Idle cell holding old, replace(x)      *)
(* followed immediately by replace(old) returns x from the second call and *)
(* leaves the cell holding old, Idle, with an empty ledger.                *)

C12_ReplaceRoundTrip ==
    /\ [](Idle => \A x \in Values, s1 \in Backtraces, s2 \in Backtraces :
            LET old == cell.inner.value
                r1 == replace_in(cell, x, s1)
                r2 == replace_in(r1.cell, old, s2)
            IN  /\ r1.ok
                /\ r2.ok
                /\ r2.ret = x
                /\ r2.cell.inner = [value |-> old, borrow |-> 0]
                /\ r2.cell.borrows.borrows = <<>>)
    /\ [][(/\ result.op = "replace"
           /\ result.outcome = "ok"
           /\ Did("replace")
           /\ cell'.inner.value = result.ret) =>
            /\ result'.outcome = "ok"
            /\ result'.ret = cell.inner.value
            /\ Idle']_vars

\* Two replaces on a new cell: the second has returned the default value,
\* which the first had put in, and the cell holds its first value again.
C12_Witness ==
    /\ result.op = "replace"
    /\ result.outcome = "ok"
    /\ result.ret = DefaultValue
    /\ cell.inner.value = TestValue
    /\ cell.borrows.next_id = 2
    /\ Idle

----------------------------------------------------------------------------
(* C13: replace_with(f) on an Idle cell calls f once, stores f's result    *)
(* and returns the value that was in the cell just before the swap; for    *)
(* the whole call to f the cell is exclusively borrowed with exactly one   *)
(* ledger record, so that any access attempted inside f is rejected, and   *)
(* it is Idle with an empty ledger once replace_with has returned.         *)

\* f, the closure of replace_with, is running.
InReplaceWith == stack # <<>> /\ Top.fn = "replace_with"

C13_ReplaceWithHoldsExclusive ==
    /\ [](InReplaceWith =>
            /\ Len(stack) = 1
            /\ guards = EmptyBag
            /\ cell.inner.borrow = -1
            /\ Len(Records) = 1
            /\ Records[1].id = Top.guard.id
            /\ \A site \in Backtraces :
                /\ ~borrow_at(cell, site).ok
                /\ ~try_borrow_at(cell, site).ok
                /\ ~borrow_mut_at(cell, site).ok
                /\ ~try_borrow_mut_at(cell, site).ok)
    /\ [][(Idle /\ Did("replace_with")) =>
            /\ result'.outcome = "call"
            /\ stack = <<>>
            /\ InReplaceWith'
            /\ cell'.inner.value = cell.inner.value]_vars
    /\ [][(InReplaceWith /\ Did("replace_with")) =>
            \/ /\ result'.outcome = "ok"
               /\ result'.ret = cell.inner.value
               /\ \E replacement \in Values :
                    cell' = swap_and_release(cell, Top.guard, replacement)
               /\ stack' = <<>>
               /\ Idle'
            \/ /\ result'.outcome = "panic"
               /\ result'.msg = MsgAlreadyBorrowed
               /\ cell'.inner.value = cell.inner.value
               /\ Idle']_vars
    /\ [][(InReplaceWith /\ (Did("borrow") \/ Did("borrow_mut"))) =>
            result'.outcome = "panic"]_vars
    /\ [][(InReplaceWith /\ (Did("try_borrow") \/ Did("try_borrow_mut"))) =>
            result'.outcome = "err" /\ InReplaceWith']_vars

\* replace_with has returned the value f had written through its view, has
\* stored f's result, and the cell is Idle.
C13_Witness ==
    /\ result.op = "replace_with"
    /\ result.outcome = "ok"
    /\ result.ret # cell.inner.value
    /\ cell.borrows.next_id = 1
    /\ Idle

----------------------------------------------------------------------------
(* C14: in every sequence of operations, unwinding from a fatal borrow     *)
(* failure or from a failing closure included, each release of a guard     *)
(* finds a record with the guard's id: "missing borrow record" is never    *)
(* reached, and no record is released twice or left behind.                *)

\* How many records of a ledger are the record r.
CountRecord(records, r) ==
    Cardinality({i \in 1..Len(records) : records[i] = r})

\* How many guards of a bag were granted with the record r.
CountOwners(bag, r) ==
    LET S == {g \in BagToSet(bag) : RecordOf(g) = r}
    IN  BagCardinality([g \in S |-> bag[g]])

C14_NoRecordLeftBehind ==
    /\ result.msg # MsgMissingRecord
    /\ \A g \in BagToSet(Live) : drop_guard(cell, g).ok
    /\ unwind_finds_records(cell, stack)
    /\ \A id \in 0..(UsizeValues - 1), site \in Backtraces :
            LET r == [id |-> id, backtrace |-> site]
            IN  CountRecord(Records, r) = CountOwners(Live, r)

\* What holds of the code: every release finds a record with the guard's id,
\* also while unwinding, and for every id the ledger holds as many records as
\* there are live guards with this id.
C14_ReleaseFindsItsRecord ==
    /\ [](result.msg # MsgMissingRecord)
    /\ [](\A g \in BagToSet(Live) : drop_guard(cell, g).ok)
    /\ [](unwind_finds_records(cell, stack))
    /\ [](\A id \in 0..(UsizeValues - 1) :
            CountId(Live, id) = RecordsWithId(Records, id))
    /\ [][Did("drop") =>
            /\ result'.outcome = "ok"
            /\ Len(Records') = Len(Records) - 1
            /\ BagCardinality(Live') = BagCardinality(Live) - 1]_vars
    /\ [][result'.outcome = "panic" =>
            /\ stack' = <<>>
            /\ guards' = guards
            /\ Len(Records') = BagCardinality(guards)
            /\ \A id \in 0..(UsizeValues - 1) :
                    RecordsWithId(Records', id) = CountId(guards, id)]_vars

\* A closure has panicked, the unwinding has released the guard its call
\* held, and the record of that guard is still in the ledger while the
\* record of a guard that is alive is gone.
C14_Witness ==
    /\ result.op = "closure"
    /\ result.outcome = "panic"
    /\ BagCardinality(guards) = 1
    /\ Len(Records) = 1
    /\ \A g \in BagToSet(guards) : RecordOf(g) # Records[1]

----------------------------------------------------------------------------
(* C15: in every reachable state the ids of the records in the ledger are  *)
(* pairwise distinct, so that every id in the ledger belongs to exactly    *)
(* one live guard, also after the id counter has wrapped around while an   *)
(* older guard is alive.                                                   *)

C15_LedgerIdsDistinct ==
    /\ \A i \in 1..Len(Records), j \in 1..Len(Records) :
            i # j => Records[i].id # Records[j].id
    /\ \A i \in 1..Len(Records) : CountId(Live, Records[i].id) = 1

\* The counter has wrapped while a guard was alive: two live guards carry the
\* same id and the ledger holds two records with it.
C15_Witness ==
    /\ result.outcome = "ok"
    /\ Len(Records) = 2
    /\ Records[1].id = Records[2].id
    /\ CountId(Live, Records[1].id) = 2

----------------------------------------------------------------------------
(* C16: the id counter of a new cell is 0; every granted access (borrow,   *)
(* try_borrow, borrow_mut, try_borrow_mut, Ref::clone and the transient    *)
(* accesses of replace, replace_with, take, == and cell clone) gets the    *)
(* current counter value as its id and advances the counter by exactly     *)
(* one, wrapping from the maximum to 0; rejected requests, map, filter_map *)
(* and releases leave the counter unchanged.                               *)

Counter == cell.borrows.next_id

\* The step advances the counter by n, wrapping.
Advanced(n) == cell'.borrows.next_id = (Counter + n) % UsizeValues

GrantOps ==
    {"borrow", "try_borrow", "borrow_mut", "try_borrow_mut", "Ref::clone"}

C16_CounterArithmetic ==
    /\ [](result.op = "new" => Counter = 0)
    /\ [](Counter \in 0..(UsizeValues - 1))
    /\ [][(result'.op \in GrantOps /\ result'.outcome = "ok") =>
            /\ Advanced(1)
            /\ \E g \in BagToSet(guards') :
                    guards' = guards (+) One(g) /\ g.id = Counter
            /\ Len(Records') = Len(Records) + 1
            /\ Records'[Len(Records')].id = Counter]_vars
    /\ [][(result'.op \in {"replace", "take"} /\ result'.outcome = "ok") =>
            Advanced(1)]_vars
    /\ [][Did("replace_with") =>
            /\ result'.outcome = "call" =>
                    Advanced(1) /\ stack'[Len(stack')].guard.id = Counter
            /\ result'.outcome = "ok" => Advanced(0)]_vars
    /\ [][result'.outcome \in {"err", "panic", "none"} => Advanced(0)]_vars
    /\ [][(result'.op \in MapFns
                \cup {"drop", "deref", "deref_mut", "closure_write"}) =>
            Advanced(0)]_vars
    /\ [](\A site \in Backtraces :
            LET b == borrow_at(cell, site)
                c == RefCell_clone_of(cell, site)
                e == eq_same(cell, site)
            IN  /\ b.ok => b.guard.id = Counter
                /\ c.ok = b.ok
                /\ c.cell.borrows.next_id =
                        IF c.ok THEN (Counter + 1) % UsizeValues ELSE Counter
                /\ c.ok => c.new[1].borrows.next_id = 0
                /\ e.ok = b.ok
                /\ e.cell.borrows.next_id =
                        IF e.ok THEN (Counter + 2) % UsizeValues ELSE Counter
                /\ \A v \in Values :
                    LET l == eq_of(cell, RefCell_new(v), site)
                        r == eq_of(RefCell_new(v), cell, site)
                    IN  /\ l.ok = b.ok
                        /\ r.ok = b.ok
                        /\ l.self.borrows.next_id =
                                IF l.ok THEN (Counter + 1) % UsizeValues
                                        ELSE Counter
                        /\ l.other.borrows.next_id = IF l.ok THEN 1 ELSE 0
                        /\ r.other.borrows.next_id =
                                IF r.ok THEN (Counter + 1) % UsizeValues
                                        ELSE Counter
                        /\ r.self.borrows.next_id = 1)

\* Ref::clone was given the greatest id and the counter has wrapped to 0.
C16_Witness ==
    /\ result.op = "Ref::clone"
    /\ result.outcome = "ok"
    /\ Counter = 0
    /\ \E g \in BagToSet(guards) : g.id = UsizeValues - 1

----------------------------------------------------------------------------
(* C17: with diagnostics enabled the snapshots rendered on a fatal         *)
(* rejection are exactly those of the guards alive at that moment: a       *)
(* rejected borrow_mut renders one snapshot per live guard, a rejected     *)
(* borrow renders exactly the snapshot of the outstanding exclusive guard; *)
(* and whenever a shared borrow is rejected the ledger holds exactly one   *)
(* record, so that reading the record at index 0 does not fail.            *)

\* How often a sequence of rendered snapshots shows the call stack site.
Rendered(printed, site) ==
    Cardinality({i \in 1..Len(printed) : printed[i] = site})

\* How many guards of a bag were granted at the call stack site.
GrantedAt(bag, site) ==
    LET S == {g \in BagToSet(bag) : g.backtrace = site}
    IN  BagCardinality([g \in S |-> bag[g]])

C17_DiagnosticsShowLiveGuards ==
    /\ [][(Did("borrow_mut") /\ result'.outcome = "panic") =>
            \/ result'.printed = <<>>
            \/ \A site \in Backtraces :
                    Rendered(result'.printed, site) = GrantedAt(Live, site)]_vars
    /\ [][(Did("borrow") /\ result'.outcome = "panic") =>
            /\ Len(Records) = 1
            /\ \/ result'.printed = <<>>
               \/ \E g \in BagToSet(Live) :
                    /\ g.kind = "RefMut"
                    /\ result'.printed = <<g.backtrace>>]_vars

\* What holds of the code: a rejected borrow_mut renders the ledger, record
\* by record, and the ledger has one record per live guard; a rejected
\* borrow finds exactly one record, the one of the exclusive guard.
C17_DiagnosticsShowTheLedger ==
    /\ [][(Did("borrow_mut") /\ result'.outcome = "panic") =>
            \/ result'.printed = <<>>
            \/ /\ Len(result'.printed) = BagCardinality(Live)
               /\ result'.printed =
                    [i \in 1..Len(Records) |-> Records[i].backtrace]]_vars
    /\ [][(Did("borrow") /\ result'.outcome = "panic") =>
            /\ Len(Records) = 1
            /\ \/ result'.printed = <<>>
               \/ \E g \in BagToSet(Live) :
                    /\ g.kind = "RefMut"
                    /\ Records = <<RecordOf(g)>>
                    /\ result'.printed = <<g.backtrace>>]_vars

\* borrow_mut has panicked while one guard is alive, and the one snapshot it
\* has rendered is not the snapshot of that guard.
C17_Witness ==
    /\ result.op = "borrow_mut"
    /\ result.outcome = "panic"
    /\ Len(result.printed) = 1
    /\ BagCardinality(guards) = 1
    /\ \A g \in BagToSet(guards) : g.backtrace # result.printed[1]

----------------------------------------------------------------------------
(* C18: diagnostic output depends only on the flag read at the moment of   *)
(* the conflict: with RUST_BACKTRACE unset or empty a rejected borrow or   *)
(* borrow_mut writes nothing and still fails fatally; with it set and      *)
(* non-empty the outstanding snapshots are written before the failure; the *)
(* try_ operations never write; and the flag never changes whether a       *)
(* request is granted or rejected.                                         *)

\* The snapshots of the ledger, in order.
Snapshots == [i \in 1..Len(Records) |-> Records[i].backtrace]

C18_DiagnosticsGatedByFlag ==
    /\ [](\A site \in Backtraces :
            LET b == borrow_at(cell, site)
                m == borrow_mut_at(cell, site)
            IN  /\ \A env \in {"unset", "empty"} :
                    b.printed[env] = <<>> /\ m.printed[env] = <<>>
                /\ ~b.ok =>
                    /\ b.msg = MsgAlreadyMutablyBorrowed
                    /\ b.printed["set"] = <<Records[1].backtrace>>
                /\ ~m.ok =>
                    /\ m.msg = MsgAlreadyBorrowed
                    /\ m.printed["set"] = Snapshots
                    /\ m.printed["set"] # <<>>
                /\ \A env \in EnvValues :
                    /\ try_borrow_at(cell, site).printed[env] = <<>>
                    /\ try_borrow_mut_at(cell, site).printed[env] = <<>>)
    /\ [][(Did("try_borrow") \/ Did("try_borrow_mut")) =>
            result'.printed = <<>>]_vars
    /\ [][Did("borrow") =>
            /\ result'.outcome = (IF cell.inner.borrow >= 0 THEN "ok"
                                                             ELSE "panic")
            /\ result'.outcome = "ok" => result'.printed = <<>>
            /\ result'.outcome = "panic" =>
                    result'.printed \in {<<>>, <<Records[1].backtrace>>}]_vars
    /\ [][Did("borrow_mut") =>
            /\ result'.outcome = (IF cell.inner.borrow = 0 THEN "ok"
                                                            ELSE "panic")
            /\ result'.outcome = "ok" => result'.printed = <<>>
            /\ result'.outcome = "panic" =>
                    result'.printed \in {<<>>, Snapshots}]_vars

\* borrow has panicked after writing the snapshot of the one record.
C18_Witness ==
    /\ result.op = "borrow"
    /\ result.outcome = "panic"
    /\ Len(Records) = 1
    /\ result.printed = <<Records[1].backtrace>>

----------------------------------------------------------------------------
(* C19: cell equality takes one transient shared access on each operand    *)
(* and releases both before it returns: it succeeds and leaves the values  *)
(* and the number of ledger records of both cells unchanged whenever       *)
(* neither operand has a live exclusive guard (shared guards may be alive, *)
(* and a cell may be compared with itself), and it fails fatally as borrow *)
(* does when either operand has a live exclusive guard.                    *)

\* The comparison r of the cells a and b left their values, std flags and
\* numbers of records as they were.
Untouched(r, a, b) ==
    /\ r.self.inner = a.inner
    /\ r.other.inner = b.inner
    /\ Len(r.self.borrows.borrows) = Len(a.borrows.borrows)
    /\ Len(r.other.borrows.borrows) = Len(b.borrows.borrows)

\* The comparison r of the cells a and b, with the exclusive guards xa and
\* xb alive on them, ends as the claim says.
AsClaimed(r, a, b, xa, xb) ==
    /\ Untouched(r, a, b)
    /\ r.ok = (xa = 0 /\ xb = 0)
    /\ r.ok => r.ret = Truth(a.inner.value = b.inner.value)
    /\ xa > 0 => r.msg = borrow_at(a, AnySite).msg
                    /\ r.printed = borrow_at(a, AnySite).printed
                    /\ r.self = a
    /\ (xa = 0 /\ xb > 0) => r.msg = borrow_at(b, AnySite).msg
                                /\ r.printed = borrow_at(b, AnySite).printed
    /\ ~r.ok => r.msg = MsgAlreadyMutablyBorrowed /\ r.other = b

C19_EqualityIsTransient ==
    /\ [](other # <<>> => \A site \in Backtraces :
            /\ AsClaimed(eq_of(cell, other[1], site), cell, other[1],
                         CountKind(Live, "RefMut"),
                         CountKind(other_guards, "RefMut"))
            /\ AsClaimed(eq_of(other[1], cell, site), other[1], cell,
                         CountKind(other_guards, "RefMut"),
                         CountKind(Live, "RefMut")))
    /\ [](\A site \in Backtraces :
            LET r == eq_same(cell, site)
            IN  /\ r.ok = (CountKind(Live, "RefMut") = 0)
                /\ r.ok => r.ret = Truth(TRUE)
                /\ r.cell.inner = cell.inner
                /\ Len(r.cell.borrows.borrows) = Len(Records)
                /\ ~r.ok => /\ r.cell = cell
                            /\ r.msg = borrow_at(cell, site).msg
                            /\ r.printed = borrow_at(cell, site).printed)
    /\ [][Did("eq") =>
            /\ cell'.inner = cell.inner
            /\ Len(Records') = Len(Records)
            /\ guards' = guards
            /\ other_guards' = other_guards
            /\ Len(other') = Len(other)
            /\ other # <<>> =>
                    /\ other'[1].inner = other[1].inner
                    /\ Len(other'[1].borrows.borrows)
                            = Len(other[1].borrows.borrows)
            /\ result'.outcome \in {"ok", "panic"}
            /\ result'.outcome = "ok" =>
                    /\ CountKind(Live, "RefMut") = 0
                    /\ result'.ret \in {Truth(TRUE), Truth(FALSE)}
            /\ result'.outcome = "panic" =>
                    /\ result'.msg = MsgAlreadyMutablyBorrowed
                    /\ CountKind(Live, "RefMut")
                            + CountKind(other_guards, "RefMut") >= 1
            /\ (CountKind(Live, "RefMut")
                    + CountKind(other_guards, "RefMut") = 0) =>
                    result'.outcome = "ok"]_vars

\* c == other has failed on the second operand, which is exclusively
\* borrowed, after the access to the first, on which a shared guard is
\* alive, had been granted.
C19_Witness ==
    /\ result.op = "eq"
    /\ result.outcome = "panic"
    /\ CountKind(guards, "Ref") = 1
    /\ CountKind(other_guards, "RefMut") = 1
    /\ Len(Records) = 1

----------------------------------------------------------------------------
(* C20: cloning a cell that has no live exclusive guard yields a new cell  *)
(* with a copy of the value, Idle, with an empty ledger and its counter at *)
(* 0, whatever shared guards are alive on the original; guards taken later *)
(* on either cell never affect admission on the other; the original's      *)
(* value and live guards are unchanged by the clone; cloning a cell with a *)
(* live exclusive guard fails fatally as borrow does.                      *)

C20_CloneIsAFreshCell ==
    /\ [][Did("RefCell::clone") =>
            /\ cell'.inner = cell.inner
            /\ Len(Records') = Len(Records)
            /\ guards' = guards
            /\ other_guards' = other_guards
            /\ IF CountKind(Live, "RefMut") = 0
                THEN /\ result'.outcome = "ok"
                     /\ result'.ret = cell.inner.value
                     /\ other' = <<RefCell_new(cell.inner.value)>>
                     /\ other'[1].inner.borrow = 0
                     /\ other'[1].borrows = [next_id |-> 0, borrows |-> <<>>]
                ELSE /\ result'.outcome = "panic"
                     /\ result'.msg = borrow_at(cell, AnySite).msg
                     /\ \E env \in EnvValues :
                            result'.printed
                                = borrow_at(cell, AnySite).printed[env]
                     /\ other' = other
                     /\ cell' = cell]_vars
    /\ [](\A site \in Backtraces :
            /\ borrow_at(cell, site).ok = (CountKind(Live, "RefMut") = 0)
            /\ borrow_mut_at(cell, site).ok = (BagCardinality(Live) = 0)
            /\ other # <<>> =>
                /\ borrow_at(other[1], site).ok
                        = (CountKind(other_guards, "RefMut") = 0)
                /\ borrow_mut_at(other[1], site).ok
                        = (BagCardinality(other_guards) = 0))
    /\ [][(Did("other.borrow") \/ Did("other.borrow_mut")
                \/ Did("other.drop")) =>
            /\ cell' = cell
            /\ guards' = guards
            /\ result'.outcome \in {"ok", "panic"}
            /\ result'.msg # MsgMissingRecord]_vars
    /\ [][(Did("borrow") \/ Did("borrow_mut") \/ Did("drop")
                \/ Did("deref_mut")) =>
            other' = other /\ other_guards' = other_guards]_vars
    /\ [][Did("other.borrow_mut") =>
            (result'.outcome = "ok") = (BagCardinality(other_guards) = 0)]_vars
    /\ [][Did("other.borrow") =>
            (result'.outcome = "ok")
                = (CountKind(other_guards, "RefMut") = 0)]_vars
    /\ [][Did("borrow_mut") =>
            (result'.outcome = "ok") = (BagCardinality(Live) = 0)]_vars
    /\ [][Did("borrow") =>
            (result'.outcome = "ok") = (CountKind(Live, "RefMut") = 0)]_vars

\* An exclusive access to the clone was granted while the original is
\* exclusively borrowed.
C20_Witness ==
    /\ result.op = "other.borrow_mut"
    /\ result.outcome = "ok"
    /\ CountKind(guards, "RefMut") = 1
    /\ CountKind(other_guards, "RefMut") = 1

====
